---- MODULE Spec2Model ----
(***************************************************************************)
(* Model of the websocket room server (src/websocket_server/app.py):       *)
(* the two global dictionaries connected_users and room_data, the          *)
(* Socket.IO room membership kept by flask_socketio's join_room and        *)
(* leave_room, and one action per event handler; and of the sound waves    *)
(* of the Django backend (src/backend/rooms).                              *)
(*                                                                         *)
(* Spec runs the membership handlers (connect, join_room, leave_room,      *)
(* disconnect); SpecPosition adds update_position, SpecWave adds           *)
(* send_sound_wave and the clock, SpecMusic adds music_control and         *)
(* sync_playback.  In these a handler runs to completion in one step, and  *)
(* the handlers are the same definitions in every specification; only the  *)
(* events the clients send differ.  SpecBackend runs the SoundWave table.  *)
(*                                                                         *)
(* SpecSteps and SpecRace run the handlers one statement per step:         *)
(* SpecSteps one handler at a time, SpecRace with the disconnect of a      *)
(* connection arriving while its leave_room handler is in flight,          *)
(* SpecJoinRace with join_room handlers of different connections           *)
(* overlapping.                                                            *)
(*                                                                         *)
(* SpecRoom runs room_view and leave_room of the backend on the RoomMember *)
(* rows of one room, SpecMemberPosition adds update_position, and          *)
(* SpecPlaylist calls Playlist.next_song on every playlist within the      *)
(* bounds.                                                                 *)
(***************************************************************************)
EXTENDS Integers, FiniteSets, Sequences, TLC

\* ------------------------------------------------------------------ bounds
NumConns == 2
MaxTime == 3
MaxWaves == 2                       \* SoundWave rows ever created
max_users == 1                      \* Room.max_users of the room of the backend
MaxOrder == 2                       \* PlaylistSong.order ranges over 0..MaxOrder
MaxCoord == 6                       \* the largest coordinate a client sends

\* ------------------------------------------------------------ value domains
None == "None"                      \* Python's None, and a missing dict key
Sids == 1..NumConns                 \* request.sid of each transport session
Rooms == {"r1", "r2"}               \* room ids a client may name
UserNames == <<"u1", "u2", "u3", "u4">>
UserOf(sid) == UserNames[sid]       \* the user the client on connection sid names
UserIds == {UserOf(sid) : sid \in Sids}
DefaultAvatarColor == "#3b82f6"
DefaultWaveColor == "#3b82f6"
Colors == {"#ff0000"}
Origin == [x |-> 0, y |-> 0, z |-> 0]
Positions == {[x |-> 1, y |-> 0, z |-> 0]}
Intensities == {15}                 \* tenths: 15 stands for 1.5
Songs == {"s1"}                     \* song_data a client may send
PlaybackPositions == {7}            \* seconds into the song a client may report
DefaultIntensity == 10              \* tenths: 1.0
SoundWaveTTL == 3                   \* seconds a sound wave lives
RecentWindow == 10                  \* seconds of waves api_room_state reads back
Users == {"alice", "bob", "carol"}  \* the authenticated users of the Django site
Movers == {"alice"}                 \* the users who post update_position
Catalog == {"a", "b", "c"}          \* the Song rows
Orders == 0..MaxOrder
RepeatModes == {"off", "one", "all"}
PositionLimitXZ == 5                \* position_x and position_z are kept in -5.0..5.0
PositionLimitY == 2                 \* position_y is kept in -2.0..2.0
NaN == MaxCoord + 1                 \* float("nan"): every comparison with it is False
Coordinates ==
    {-MaxCoord, -PositionLimitXZ, -PositionLimitY, 0,
     PositionLimitY, PositionLimitXZ, MaxCoord, NaN}
\* the positions room_view draws for a new RoomMember row
SpawnPositions == {[x |-> 0, y |-> 0, z |-> 0], [x |-> -2, y |-> 0, z |-> 2]}
NoTime == -1                        \* a DateTimeField that is not set

VARIABLES
    conn,             \* transport state of each sid: "new", "open", "closed"
    connected_users,  \* sid -> user dict, for the sids that joined
    room_data,        \* room id -> [users, current_song, playback_position]
    sio_rooms,        \* room id -> sids in the Socket.IO room of that name
    out,              \* the events the last handler delivered
    last,             \* the last event handled, with the sender's room before it
    joined,           \* history: room -> sids that joined and did not leave since
    now,              \* the server clock, in seconds
    sound_waves,      \* the rows of the SoundWave table (backend/rooms/models.py)
    wave_count,       \* SoundWave rows created so far (the next primary key - 1)
    response,         \* the response to the last HTTP request of the backend
    swept_at,         \* history: the time of the last cleanup_expired, or NoTime
    room_members,          \* user -> its RoomMember row in the room: "none" (no row),
                      \* "active" or "inactive" (is_active)
    entering,         \* the users whose room_view request has passed the is_full check
    member_position,  \* user -> position_x, position_y, position_z of its RoomMember row
    last_move,        \* history: the last update_position call and its arguments
    playlist_songs,   \* the PlaylistSong rows of the room's playlist: song and order
    current_song,     \* Playlist.current_song, or None
    repeat_mode,      \* Playlist.repeat_mode
    next_result,      \* history: the last next_song call, its playlist and its result
    task,             \* sid -> the event handler running for it, statement by statement
    dtask,            \* sid -> the disconnect handler running for it
    raised,           \* history: the handlers that raised an exception
    left_recv,        \* history: recipient -> sid -> user_left events received
                      \* about that sid since it last joined
    racing            \* history: the leave_room / disconnect pairs that overlapped

\* the state of the websocket server and the state of the Django backend
wsvars == <<conn, connected_users, room_data, sio_rooms, out, last, joined>>
posvars == <<member_position, last_move>>
plvars == <<playlist_songs, current_song, repeat_mode, next_result>>
djvars == <<room_members, entering, posvars, plvars>>
dbvars == <<sound_waves, wave_count, response, swept_at, djvars>>

\* the handlers in flight when they are run one statement at a time
stepvars == <<task, dtask, raised, left_recv, racing>>

vars == <<wsvars, now, dbvars, stepvars>>

\* ---------------------------------------------------------------- helpers
\* d.get(k, default)
Get(d, k, default) == IF k \in DOMAIN d THEN d[k] ELSE default

\* the room connected_users binds sid to: user_data.get('room_id'), None for a
\* sid that is not in connected_users
RoomOf(sid) ==
    IF sid \in DOMAIN connected_users THEN connected_users[sid].room_id ELSE None

\* flask_socketio.emit(event, payload): to the sender only
EmitSelf(sid, event, payload) ==
    {[event |-> event, to |-> sid, payload |-> payload]}

EmitRoom_IncludesSelf(members, skip, event, payload) ==
    {[event |-> event, to |-> s, payload |-> payload] : s \in members}

\* flask_socketio.emit(event, payload, room=r [, include_self=False]) given the
\* Socket.IO membership `members` of r at the time of the call
EmitRoom(members, skip, event, payload) ==
    {[event |-> event, to |-> s, payload |-> payload] : s \in members \ skip}

\* d with key k set to v (k may be new)
Put(d, k, v) == [x \in DOMAIN d \cup {k} |-> IF x = k THEN v ELSE d[x]]

\* d.pop(k, None)
Pop(d, k) == [x \in DOMAIN d \ {k} |-> d[x]]

EmptyDict == [k \in {} |-> None]     \* {}

NewRoom == [users |-> EmptyDict, current_song |-> None, playback_position |-> 0]

\* a handler's locals before it assigns them
NoUser ==
    [room_id |-> None, user_id |-> None, username |-> None,
     avatar_color |-> None, position |-> Origin]

\* no handler in flight
Idle == [op |-> None, pc |-> "idle"]

\* the handler of event op on payload d before its first statement
Started(op, d) ==
    [op |-> op, pc |-> "read", d |-> d, user_data |-> NoUser, room_id |-> None]

InitEngine ==
    /\ conn = [s \in Sids |-> "new"]
    /\ connected_users = EmptyDict
    /\ room_data = EmptyDict
    /\ sio_rooms = [r \in Rooms |-> {}]
    /\ out = {}
    /\ last = [op |-> "init", sid |-> 0, room |-> None]
    /\ joined = [r \in Rooms |-> {}]
    /\ now = 0
    /\ sound_waves = {}
    /\ wave_count = 0
    /\ response = [kind |-> "none"]
    /\ swept_at = NoTime
    /\ room_members = [u \in Users |-> "none"]
    /\ entering = {}
    /\ member_position = [u \in Users |-> [x |-> 0, y |-> 0, z |-> 0]]
    /\ last_move = [called |-> FALSE, user |-> None, x |-> 0, y |-> 0, z |-> 0]
    /\ task = [s \in Sids |-> Idle]
    /\ dtask = [s \in Sids |-> Idle]
    /\ raised = {}
    /\ left_recv = [c \in Sids |-> [s \in Sids |-> 0]]
    /\ racing = {}

\* a next_song call that has not happened
NotCalled ==
    [called |-> FALSE, song |-> None, songs |-> {}, current_song |-> None, repeat_mode |-> "off"]

\* the playlist create_room_playlist makes for a new room
Init ==
    /\ InitEngine
    /\ playlist_songs = {}
    /\ current_song = None
    /\ repeat_mode = "off"
    /\ next_result = NotCalled

\* the playlists the PlaylistSong and Playlist tables can hold: at most one row
\* per order (unique_together), any song or none as current_song, any repeat_mode
Playlists ==
    {ps \in SUBSET [song : Catalog, order : Orders] :
        \A e, f \in ps : e.order = f.order => e = f}

InitPlaylist ==
    /\ InitEngine
    /\ playlist_songs \in Playlists
    /\ current_song \in Catalog \cup {None}
    /\ repeat_mode \in RepeatModes
    /\ next_result = NotCalled

\* ---------------------------------------------------------------- handlers
handle_connect(sid) ==
    /\ conn[sid] = "new"
    /\ conn' = [conn EXCEPT ![sid] = "open"]
    /\ out' = EmitSelf(sid, "connected", [message |-> "Connected to Echo Chamber server"])
    /\ last' = [op |-> "connect", sid |-> sid, room |-> None]
    /\ UNCHANGED <<connected_users, room_data, sio_rooms, joined, now, dbvars, stepvars>>

\* d without the key k
Without(d, k) == [x \in DOMAIN d \ {k} |-> d[x]]

\* the join_room payloads of the client on connection sid: its own user id,
\* with the optional keys (avatar_color, position) both left out
JoinPlain(sid) ==
    {[room_id |-> r, user_id |-> UserOf(sid), username |-> UserOf(sid)] : r \in Rooms}

\* the same with the optional keys given
JoinFull(sid) ==
    {[room_id |-> r, user_id |-> UserOf(sid), username |-> UserOf(sid),
      avatar_color |-> c, position |-> p] : r \in Rooms, c \in Colors, p \in Positions}

\* a payload with one of the required keys missing
JoinMalformed(sid) ==
    {Without(d, k) : d \in JoinPlain(sid), k \in {"room_id", "user_id", "username"}}

\* the user dict join_room stores (app.py 77-83)
UserDict(d) ==
    [room_id |-> Get(d, "room_id", None), user_id |-> Get(d, "user_id", None),
     username |-> Get(d, "username", None),
     avatar_color |-> Get(d, "avatar_color", DefaultAvatarColor),
     position |-> Get(d, "position", Origin)]

MissingRequired_IgnoresUsername(d) ==
    \/ Get(d, "room_id", None) = None
    \/ Get(d, "user_id", None) = None

\* not all([room_id, user_id, username])
MissingRequired(d) ==
    \/ Get(d, "room_id", None) = None
    \/ Get(d, "user_id", None) = None
    \/ Get(d, "username", None) = None

RoomDataAfterJoin_ResetsRoom(sid, d) ==
    [Put(room_data, d.room_id, NewRoom) EXCEPT
        ![d.room_id].users = Put(@, sid, UserDict(d))]

\* room_data after "if room_id not in room_data: room_data[room_id] = {...}"
\* and "room_data[room_id]['users'][request.sid] = connected_users[request.sid]"
RoomDataAfterJoin(sid, d) ==
    LET rd == IF d.room_id \in DOMAIN room_data THEN room_data
              ELSE Put(room_data, d.room_id, NewRoom)
    IN  [rd EXCEPT ![d.room_id].users = Put(@, sid, UserDict(d))]

\* flask_socketio.join_room(room_id): the sid enters the Socket.IO room; the
\* handler never takes it out of the room it was in before
SioAfterJoin(sid, d) == [sio_rooms EXCEPT ![d.room_id] = @ \cup {sid}]

\* The users list of room_joined is the list of the values of the room's
\* users dict; the payload here keeps the dict, so that two equal presences
\* stay two entries.
handle_join_room(sid, d) ==
    /\ conn[sid] = "open"
    /\ IF MissingRequired(d)
       THEN /\ out' = EmitSelf(sid, "error", [message |-> "Missing required fields"])
            /\ UNCHANGED <<conn, connected_users, room_data, sio_rooms, joined>>
       ELSE LET rd == RoomDataAfterJoin(sid, d)
                sio == SioAfterJoin(sid, d)
                r == d.room_id
            IN  /\ connected_users' = Put(connected_users, sid, UserDict(d))
                /\ room_data' = rd
                /\ sio_rooms' = sio
                /\ out' = EmitSelf(sid, "room_joined",
                                   [room_id |-> r, users |-> rd[r].users,
                                    current_song |-> rd[r].current_song,
                                    playback_position |-> rd[r].playback_position])
                          \cup EmitRoom(sio[r], {sid}, "user_joined",
                                   [user_id |-> d.user_id, username |-> d.username,
                                    avatar_color |-> UserDict(d).avatar_color,
                                    position |-> UserDict(d).position])
                /\ joined' = [joined EXCEPT ![r] = @ \cup {sid}]
                /\ UNCHANGED conn
    /\ last' = [op |-> "join_room", sid |-> sid, room |-> RoomOf(sid)]
    /\ UNCHANGED <<now, dbvars, stepvars>>

UserLeft(user_data) ==
    [user_id |-> user_data.user_id, username |-> user_data.username]

RoomDataAfterLeave_KeepsUser(sid, room_id) == room_data

\* room_data after "if room_id in room_data: ...['users'].pop(request.sid, None)"
RoomDataAfterLeave(sid, room_id) ==
    IF room_id \in DOMAIN room_data
    THEN [room_data EXCEPT ![room_id].users = Pop(@, sid)]
    ELSE room_data

\* connected_users after "connected_users[request.sid]['room_id'] = None"
UsersAfterLeave_KeepsRoom(sid) == connected_users

UsersAfterLeave(sid) == [connected_users EXCEPT ![sid].room_id = None]

handle_leave_room(sid) ==
    /\ conn[sid] = "open"
    /\ UNCHANGED <<now, dbvars, stepvars>>
    /\ last' = [op |-> "leave_room", sid |-> sid, room |-> RoomOf(sid)]
    /\ IF sid \in DOMAIN connected_users
       THEN LET user_data == connected_users[sid]
                room_id == user_data.room_id
            IN  /\ IF room_id # None
                   THEN LET sio == [sio_rooms EXCEPT ![room_id] = @ \ {sid}]
                        IN  /\ sio_rooms' = sio
                            /\ room_data' = RoomDataAfterLeave(sid, room_id)
                            /\ out' = EmitRoom(sio[room_id], {}, "user_left",
                                               UserLeft(user_data))
                            /\ joined' = [joined EXCEPT ![room_id] = @ \ {sid}]
                   ELSE /\ out' = {}
                        /\ UNCHANGED <<sio_rooms, room_data, joined>>
                /\ connected_users' = UsersAfterLeave(sid)
       ELSE /\ out' = {}
            /\ UNCHANGED <<connected_users, room_data, sio_rooms, joined>>
    /\ UNCHANGED conn

\* room_data after the disconnect handler's
\* "if room_id and room_id in room_data: ...['users'].pop(request.sid, None)"
RoomDataAfterDisconnect(sid) ==
    LET room_id == RoomOf(sid)
    IN  IF room_id # None /\ room_id \in DOMAIN room_data
        THEN [room_data EXCEPT ![room_id].users = Pop(@, sid)]
        ELSE room_data

\* The transport of sid is closed when the handler runs, so nothing reaches
\* sid itself; after the handler Socket.IO takes sid out of every room.
handle_disconnect(sid) ==
    /\ conn[sid] = "open"
    /\ UNCHANGED <<now, dbvars, stepvars>>
    /\ conn' = [conn EXCEPT ![sid] = "closed"]
    /\ last' = [op |-> "disconnect", sid |-> sid, room |-> RoomOf(sid)]
    /\ room_data' = RoomDataAfterDisconnect(sid)
    /\ out' = IF RoomOf(sid) # None /\ RoomOf(sid) \in DOMAIN room_data
              THEN EmitRoom(sio_rooms[RoomOf(sid)], {sid}, "user_left",
                            UserLeft(connected_users[sid]))
              ELSE {}
    /\ connected_users' = Pop(connected_users, sid)
    /\ sio_rooms' = [r \in Rooms |-> sio_rooms[r] \ {sid}]
    /\ joined' = [r \in Rooms |-> joined[r] \ {sid}]

\* the update_position payloads: a position, or no position key
PositionData == {[position |-> p] : p \in Positions}

UsersAfterPosition_MovesAll(sid, new_position) ==
    [c \in DOMAIN connected_users |->
        [connected_users[c] EXCEPT !.position = new_position]]

\* connected_users after "user_data['position'] = new_position"
UsersAfterPosition(sid, new_position) ==
    [connected_users EXCEPT ![sid].position = new_position]

\* room_data[room_id]['users'][request.sid] is the dict connected_users holds for
\* the sid (join_room stores the same object in both), so the same write shows
\* in both; a KeyError when the sid is not in the room's users leaves room_data
\* alone and skips the emit
handle_update_position(sid, d) ==
    /\ conn[sid] = "open"
    /\ UNCHANGED <<now, dbvars, stepvars>>
    /\ last' = [op |-> "update_position", sid |-> sid, room |-> RoomOf(sid)]
    /\ IF sid \in DOMAIN connected_users
       THEN LET room_id == RoomOf(sid)
                new_position == Get(d, "position", EmptyDict)
            IN  /\ connected_users' = UsersAfterPosition(sid, new_position)
                /\ IF /\ room_id # None
                      /\ room_id \in DOMAIN room_data
                      /\ sid \in DOMAIN room_data[room_id].users
                   THEN /\ room_data' = [room_data EXCEPT
                                ![room_id].users[sid].position = new_position]
                        /\ out' = EmitRoom(sio_rooms[room_id], {sid}, "position_updated",
                                     [user_id |-> connected_users[sid].user_id,
                                      position |-> new_position])
                   ELSE /\ out' = {}
                        /\ UNCHANGED room_data
       ELSE /\ out' = {}
            /\ UNCHANGED <<connected_users, room_data>>
    /\ UNCHANGED <<conn, sio_rooms, joined>>

\* the send_sound_wave payloads
WaveData ==
    {[to_user_id |-> u, intensity |-> i] : u \in UserIds, i \in Intensities}
    \cup {EmptyDict}

WaveDict_DefaultIntensity(user_data, d) ==
    [from_user_id |-> user_data.user_id,
     to_user_id |-> Get(d, "to_user_id", None),
     color |-> Get(d, "color", DefaultWaveColor),
     intensity |-> DefaultIntensity,
     timestamp |-> now]

\* wave_data (app.py 179-185)
WaveDict(user_data, d) ==
    [from_user_id |-> user_data.user_id,
     to_user_id |-> Get(d, "to_user_id", None),
     color |-> Get(d, "color", DefaultWaveColor),
     intensity |-> Get(d, "intensity", DefaultIntensity),
     timestamp |-> now]

handle_send_sound_wave(sid, d) ==
    /\ conn[sid] = "open"
    /\ UNCHANGED <<now, dbvars, stepvars>>
    /\ last' = [op |-> "send_sound_wave", sid |-> sid, room |-> RoomOf(sid)]
    /\ out' = IF sid \in DOMAIN connected_users /\ RoomOf(sid) # None
              THEN EmitRoom(sio_rooms[RoomOf(sid)], {}, "sound_wave_received",
                            WaveDict(connected_users[sid], d))
              ELSE {}
    /\ UNCHANGED <<conn, connected_users, room_data, sio_rooms, joined>>

\* the music_control payloads: the three actions the handler knows, one it
\* does not, update_song without song_data, and no action at all
MusicData ==
    {[action |-> a] : a \in {"play_pause", "skip", "update_song", "rewind"}}
    \cup {[action |-> "update_song", song_data |-> s] : s \in Songs}
    \cup {EmptyDict}

RoomDataAfterSong_KeepsPosition(room_id, song_data) ==
    [room_data EXCEPT ![room_id].current_song = song_data]

\* room_data after the update_song branch (app.py 217-218)
RoomDataAfterSong(room_id, song_data) ==
    [room_data EXCEPT ![room_id].current_song = song_data,
                      ![room_id].playback_position = 0]

\* what handle_music_control emits for payload d in room room_id
MusicEmits(sid, room_id, d) ==
    LET action == Get(d, "action", None)
        song_data == Get(d, "song_data", None)
        who == [user_id |-> connected_users[sid].user_id]
    IN  IF action = "play_pause"
        THEN EmitRoom(sio_rooms[room_id], {}, "music_play_pause", who)
        ELSE IF action = "skip"
        THEN EmitRoom(sio_rooms[room_id], {}, "music_skip", who)
        ELSE IF action = "update_song" /\ song_data # None
        THEN EmitRoom(sio_rooms[room_id], {}, "song_updated",
                      [song_data |-> song_data,
                       user_id |-> connected_users[sid].user_id])
        ELSE {}

handle_music_control(sid, d) ==
    /\ conn[sid] = "open"
    /\ UNCHANGED <<now, dbvars, stepvars>>
    /\ last' = [op |-> "music_control", sid |-> sid, room |-> RoomOf(sid)]
    /\ IF RoomOf(sid) # None /\ RoomOf(sid) \in DOMAIN room_data
       THEN /\ out' = MusicEmits(sid, RoomOf(sid), d)
            /\ room_data' =
                 IF Get(d, "action", None) = "update_song"
                    /\ Get(d, "song_data", None) # None
                 THEN RoomDataAfterSong(RoomOf(sid), d.song_data)
                 ELSE room_data
       ELSE /\ out' = {}
            /\ UNCHANGED room_data
    /\ UNCHANGED <<conn, connected_users, sio_rooms, joined>>

\* the sync_playback payloads: a reported position, or none (the handler
\* then takes 0)
SyncData == {[position |-> p] : p \in PlaybackPositions} \cup {EmptyDict}

RoomDataAfterSync_Unchanged(room_id, position) == room_data

\* room_data after "room_data[room_id]['playback_position'] = position"
RoomDataAfterSync(room_id, position) ==
    [room_data EXCEPT ![room_id].playback_position = position]

handle_sync_playback(sid, d) ==
    /\ conn[sid] = "open"
    /\ UNCHANGED <<now, dbvars, stepvars>>
    /\ last' = [op |-> "sync_playback", sid |-> sid, room |-> RoomOf(sid)]
    /\ IF RoomOf(sid) # None /\ RoomOf(sid) \in DOMAIN room_data
       THEN LET position == Get(d, "position", 0)
            IN  /\ room_data' = RoomDataAfterSync(RoomOf(sid), position)
                /\ out' = EmitRoom(sio_rooms[RoomOf(sid)], {sid}, "playback_synced",
                                   [position |-> position, timestamp |-> now])
       ELSE /\ out' = {}
            /\ UNCHANGED room_data
    /\ UNCHANGED <<conn, connected_users, sio_rooms, joined>>

\* a second passes on the server clock
Tick ==
    /\ now < MaxTime
    /\ now' = now + 1
    /\ UNCHANGED <<wsvars, dbvars, stepvars>>

\* ------------------------------------------------- backend: sound waves
\* SoundWave.save: a row saved without expires_at expires SoundWaveTTL seconds
\* after the save
SoundWaveSave(row) ==
    IF row.expires_at = NoTime
    THEN [row EXCEPT !.expires_at = now + SoundWaveTTL]
    ELSE row

\* api_room_action, action send_wave: SoundWave.objects.create(room=room, ...)
\* with no expires_at; created_at is auto_now_add
SoundWaveCreate(room) ==
    /\ wave_count < MaxWaves
    /\ wave_count' = wave_count + 1
    /\ sound_waves' = sound_waves \cup
            {SoundWaveSave([id |-> wave_count + 1, room |-> room,
                            created_at |-> now, expires_at |-> NoTime])}
    /\ response' = [kind |-> "room_action", status |-> "wave_sent"]
    /\ UNCHANGED <<wsvars, now, swept_at, stepvars, djvars>>

\* the rows cleanup_expired keeps: filter(expires_at__lt=timezone.now()).delete()
AfterCleanup(rows) == {w \in rows : ~(w.expires_at < now)}

\* SoundWave.cleanup_expired
SoundWaveCleanupExpired ==
    /\ sound_waves' = AfterCleanup(sound_waves)
    /\ swept_at' = now
    /\ UNCHANGED <<wsvars, now, wave_count, response, stepvars, djvars>>

\* the rows api_room_state reads: filter(room=room, created_at__gte=cutoff_time)
RecentWaves(room) ==
    LET cutoff_time == now - RecentWindow
    IN  {w \in sound_waves : w.room = room /\ w.created_at >= cutoff_time}

\* api_room_state: the sound_waves list of the response.  An entry keeps the
\* row's primary key so that two waves of the same second stay two entries.
api_room_state(room) ==
    /\ response' = [kind |-> "room_state", at |-> now, room |-> room,
                    sound_waves |-> {[id |-> w.id, created_at |-> w.created_at] :
                                        w \in RecentWaves(room)}]
    /\ UNCHANGED <<wsvars, now, sound_waves, wave_count, swept_at, stepvars, djvars>>

Next ==
    \/ \E sid \in Sids : handle_connect(sid)
    \/ \E sid \in Sids :
        \E d \in JoinPlain(sid) \cup JoinFull(sid) \cup JoinMalformed(sid) :
            handle_join_room(sid, d)
    \/ \E sid \in Sids : handle_leave_room(sid)
    \/ \E sid \in Sids : handle_disconnect(sid)

Spec == Init /\ [][Next]_vars

NextPosition ==
    \/ \E sid \in Sids : handle_connect(sid)
    \/ \E sid \in Sids : \E d \in JoinPlain(sid) : handle_join_room(sid, d)
    \/ \E sid \in Sids : handle_leave_room(sid)
    \/ \E sid \in Sids : handle_disconnect(sid)
    \/ \E sid \in Sids : \E d \in PositionData : handle_update_position(sid, d)

SpecPosition == Init /\ [][NextPosition]_vars

NextWave ==
    \/ \E sid \in Sids : handle_connect(sid)
    \/ \E sid \in Sids : \E d \in JoinPlain(sid) : handle_join_room(sid, d)
    \/ \E sid \in Sids : handle_leave_room(sid)
    \/ \E sid \in Sids : handle_disconnect(sid)
    \/ \E sid \in Sids : \E d \in WaveData : handle_send_sound_wave(sid, d)
    \/ Tick

SpecWave == Init /\ [][NextWave]_vars

NextMusic ==
    \/ \E sid \in Sids : handle_connect(sid)
    \/ \E sid \in Sids : \E d \in JoinPlain(sid) : handle_join_room(sid, d)
    \/ \E sid \in Sids : handle_leave_room(sid)
    \/ \E sid \in Sids : handle_disconnect(sid)
    \/ \E sid \in Sids : \E d \in MusicData : handle_music_control(sid, d)
    \/ \E sid \in Sids : \E d \in SyncData : handle_sync_playback(sid, d)

SpecMusic == Init /\ [][NextMusic]_vars

\* ------------------------------------------------- backend: room capacity
\* Room.active_member_count: members.filter(is_active=True).count()
active_member_count == Cardinality({u \in Users : room_members[u] = "active"})

\* Room.is_full
is_full == active_member_count >= max_users

\* room_view up to its is_full check: a full room turns away a user who has no
\* RoomMember row in it (room.members.filter(user=...) counts inactive rows too)
room_view_check(user) ==
    /\ user \notin entering
    /\ IF is_full /\ room_members[user] = "none"
       THEN /\ response' = [kind |-> "room_view", status |-> "room_full"]
            /\ UNCHANGED entering
       ELSE /\ entering' = entering \cup {user}
            /\ UNCHANGED response
    /\ UNCHANGED <<wsvars, now, sound_waves, wave_count, swept_at, room_members, posvars, plvars, stepvars>>

\* room_view from get_or_create on: the row is created if missing and made active
room_view_enter(user) ==
    /\ user \in entering
    /\ entering' = entering \ {user}
    /\ room_members' = [room_members EXCEPT ![user] = "active"]
    /\ IF room_members[user] = "none"
       THEN \E p \in SpawnPositions : member_position' = [member_position EXCEPT ![user] = p]
       ELSE UNCHANGED member_position
    /\ response' = [kind |-> "room_view", status |-> "room"]
    /\ UNCHANGED <<wsvars, now, sound_waves, wave_count, swept_at, last_move, plvars, stepvars>>

\* api_room_action with action leave_room: only an active member gets past
\* RoomMember.objects.get(..., is_active=True)
api_leave_room(user) ==
    /\ IF room_members[user] = "active"
       THEN /\ room_members' = [room_members EXCEPT ![user] = "inactive"]
            /\ response' = [kind |-> "room_action", status |-> "left_room"]
       ELSE /\ response' = [kind |-> "room_action", status |-> "Not a member of this room"]
            /\ UNCHANGED room_members
    /\ UNCHANGED <<wsvars, now, sound_waves, wave_count, swept_at, entering, posvars, plvars, stepvars>>

NextRoom ==
    \/ \E user \in Users : room_view_check(user)
    \/ \E user \in Users : room_view_enter(user)
    \/ \E user \in Users : api_leave_room(user)

SpecRoom == Init /\ [][NextRoom]_vars

\* ------------------------------------------- backend: RoomMember position
\* a < b on Python floats
PyLt(a, b) == a # NaN /\ b # NaN /\ a < b

\* min(a, b) and max(a, b): the first argument unless the second is strictly
\* smaller (larger)
PyMin(a, b) == IF PyLt(b, a) THEN b ELSE a
PyMax(a, b) == IF PyLt(a, b) THEN b ELSE a

update_position_NoFloor(x, y, z) ==
    [x |-> PyMin(PositionLimitXZ, x),
     y |-> PyMin(PositionLimitY, y),
     z |-> PyMin(PositionLimitXZ, z)]

\* RoomMember.update_position: the position it saves
update_position(x, y, z) ==
    [x |-> PyMax(-PositionLimitXZ, PyMin(PositionLimitXZ, x)),
     y |-> PyMax(-PositionLimitY, PyMin(PositionLimitY, y)),
     z |-> PyMax(-PositionLimitXZ, PyMin(PositionLimitXZ, z))]

\* api_room_action with action update_position by an active member; a
\* coordinate the request leaves out is the stored one
api_update_position(user, x, y, z) ==
    /\ IF room_members[user] = "active"
       THEN /\ member_position' = [member_position EXCEPT ![user] = update_position(x, y, z)]
            /\ last_move' = [called |-> TRUE, user |-> user, x |-> x, y |-> y, z |-> z]
            /\ response' = [kind |-> "room_action", status |-> "position_updated"]
       ELSE /\ response' = [kind |-> "room_action", status |-> "Not a member of this room"]
            /\ UNCHANGED posvars
    /\ UNCHANGED <<wsvars, now, sound_waves, wave_count, swept_at, room_members, entering, plvars, stepvars>>

NextMemberPosition ==
    \/ \E user \in Movers : room_view_check(user)
    \/ \E user \in Movers : room_view_enter(user)
    \/ \E user \in Movers : api_leave_room(user)
    \/ \E user \in Movers :
          \E x \in Coordinates \cup {member_position[user].x},
             y \in Coordinates \cup {member_position[user].y},
             z \in Coordinates \cup {member_position[user].z} :
                api_update_position(user, x, y, z)

SpecMemberPosition == Init /\ [][NextMemberPosition]_vars

\* ------------------------------------------------------ backend: playlist
\* the first row of a non-empty set of PlaylistSong rows (Meta.ordering = order)
First(rows) == CHOOSE e \in rows : \A f \in rows : e.order <= f.order

next_song_TruthyOrder ==
    IF current_song = None
    THEN IF playlist_songs = {} THEN None ELSE First(playlist_songs).song
    ELSE LET mine == {e \in playlist_songs : e.song = current_song}
             later == {e \in playlist_songs : e.order > First(mine).order}
         IN  IF mine = {} \/ First(mine).order = 0 THEN None
             ELSE IF later # {} THEN First(later).song
             ELSE IF repeat_mode = "all" THEN First(playlist_songs).song
             ELSE None

\* Playlist.next_song
next_song ==
    IF current_song = None
    THEN IF playlist_songs = {} THEN None ELSE First(playlist_songs).song
    ELSE LET mine == {e \in playlist_songs : e.song = current_song}
             later == {e \in playlist_songs : e.order > First(mine).order}
         IN  IF mine = {} THEN None
             ELSE IF later # {} THEN First(later).song
             ELSE IF repeat_mode = "all" THEN First(playlist_songs).song
             ELSE None

\* a call of Playlist.next_song
call_next_song ==
    /\ next_result' = [called |-> TRUE, song |-> next_song, songs |-> playlist_songs,
                       current_song |-> current_song, repeat_mode |-> repeat_mode]
    /\ UNCHANGED <<wsvars, now, sound_waves, wave_count, response, swept_at, room_members, entering, posvars,
                   playlist_songs, current_song, repeat_mode, stepvars>>

\* api_room_songs, POST: the song goes to the end of the playlist and becomes
\* the current song if there is none
api_room_songs_post(user, song) ==
    LET max_order == IF playlist_songs = {} THEN 0
                     ELSE CHOOSE o \in Orders : /\ \E e \in playlist_songs : e.order = o
                                               /\ \A e \in playlist_songs : e.order <= o
    IN  /\ max_order + 1 <= MaxOrder
        /\ playlist_songs' = playlist_songs \cup {[song |-> song, order |-> max_order + 1]}
        /\ current_song' = IF current_song = None THEN song ELSE current_song
        /\ response' = [kind |-> "room_songs", status |-> "Song added to playlist"]
        /\ UNCHANGED <<wsvars, now, sound_waves, wave_count, swept_at, room_members, entering, posvars,
                       repeat_mode, next_result, stepvars>>

NextPlaylist ==
    \/ call_next_song
    \/ \E user \in Users, song \in Catalog : api_room_songs_post(user, song)

SpecPlaylist == InitPlaylist /\ [][NextPlaylist]_vars

NextBackend ==
    \/ \E room \in Rooms : SoundWaveCreate(room)
    \/ SoundWaveCleanupExpired
    \/ \E room \in Rooms : api_room_state(room)
    \/ Tick

SpecBackend == Init /\ [][NextBackend]_vars

\* ------------------------------------- the handlers, statement by statement
\* The same handlers with one action per statement. A handler's locals
\* (user_data, room_id) live in task[sid] (event handlers) or dtask[sid]
\* (the disconnect handler); user_data is a reference to the dict that
\* connected_users holds, so a write through one name shows through the other.
StepRooms == {"r1"}                 \* the room the statement-level runs use

StepJoinData(sid) == {d \in JoinPlain(sid) : d.room_id \in StepRooms}

\* what no statement of a handler changes
stepframe == <<conn, last, now, dbvars, racing>>

\* no handler is in flight
Quiet == \A s \in Sids : task[s].pc = "idle" /\ dtask[s].pc = "idle"

\* an event arrives on an open connection and its handler is started
BeginEvent(sid, op, d) ==
    /\ conn[sid] = "open"
    /\ Quiet
    /\ task' = [task EXCEPT ![sid] = Started(op, d)]
    /\ last' = [op |-> op, sid |-> sid, room |-> RoomOf(sid)]
    /\ out' = {}
    /\ racing' = {}
    /\ UNCHANGED <<conn, connected_users, room_data, sio_rooms, joined, now, dbvars,
                   dtask, raised, left_recv>>

\* the handler of sid is at statement pc of handler op
At(sid, op, pc) == task[sid].op = op /\ task[sid].pc = pc

Goto(sid, pc) == task' = [task EXCEPT ![sid].pc = pc]

Return(sid) == task' = [task EXCEPT ![sid] = Idle]

\* an exception leaves the try block: it is logged and the handler returns
Raise(sid) ==
    /\ task' = [task EXCEPT ![sid] = Idle]
    /\ raised' = raised \cup {[op |-> task[sid].op, sid |-> sid]}

\* ---- handle_join_room
\* room_id, user_id, username = data.get(...); if not all([...]): emit error
join_read(sid) ==
    /\ At(sid, "join_room", "read")
    /\ IF MissingRequired(task[sid].d)
       THEN /\ out' = EmitSelf(sid, "error", [message |-> "Missing required fields"])
            /\ Return(sid)
       ELSE /\ Goto(sid, "store")
            /\ UNCHANGED out
    /\ UNCHANGED <<stepframe, connected_users, room_data, sio_rooms, joined,
                   dtask, raised, left_recv>>

\* connected_users[request.sid] = {...}
join_store(sid) ==
    /\ At(sid, "join_room", "store")
    /\ connected_users' = Put(connected_users, sid, UserDict(task[sid].d))
    /\ Goto(sid, "check_room")
    /\ UNCHANGED <<stepframe, room_data, sio_rooms, out, joined, dtask, raised,
                   left_recv>>

\* if room_id not in room_data:
join_check_room(sid) ==
    /\ At(sid, "join_room", "check_room")
    /\ Goto(sid, IF task[sid].d.room_id \in DOMAIN room_data THEN "sio" ELSE "init")
    /\ UNCHANGED <<stepframe, connected_users, room_data, sio_rooms, out, joined,
                   dtask, raised, left_recv>>

\* room_data[room_id] = {'users': {}, 'current_song': None, 'playback_position': 0}
join_init(sid) ==
    /\ At(sid, "join_room", "init")
    /\ room_data' = Put(room_data, task[sid].d.room_id, NewRoom)
    /\ Goto(sid, "sio")
    /\ UNCHANGED <<stepframe, connected_users, sio_rooms, out, joined, dtask,
                   raised, left_recv>>

\* join_room(room_id)
join_sio(sid) ==
    /\ At(sid, "join_room", "sio")
    /\ sio_rooms' = SioAfterJoin(sid, task[sid].d)
    /\ Goto(sid, "add")
    /\ UNCHANGED <<stepframe, connected_users, room_data, out, joined, dtask,
                   raised, left_recv>>

\* room_data[room_id]['users'][request.sid] = connected_users[request.sid]
join_add(sid) ==
    /\ At(sid, "join_room", "add")
    /\ room_data' = RoomDataAfterJoin(sid, task[sid].d)
    /\ joined' = [joined EXCEPT ![task[sid].d.room_id] = @ \cup {sid}]
    /\ left_recv' = [c \in Sids |-> [left_recv[c] EXCEPT ![sid] = 0]]
    /\ Goto(sid, "emit_self")
    /\ UNCHANGED <<stepframe, connected_users, sio_rooms, out, dtask, raised>>

\* emit('room_joined', {...})
join_emit_self(sid) ==
    /\ At(sid, "join_room", "emit_self")
    /\ LET r == task[sid].d.room_id
       IN  out' = EmitSelf(sid, "room_joined",
                           [room_id |-> r, users |-> room_data[r].users,
                            current_song |-> room_data[r].current_song,
                            playback_position |-> room_data[r].playback_position])
    /\ Goto(sid, "emit_others")
    /\ UNCHANGED <<stepframe, connected_users, room_data, sio_rooms, joined, dtask,
                   raised, left_recv>>

\* emit('user_joined', {...}, room=room_id, include_self=False)
join_emit_others(sid) ==
    /\ At(sid, "join_room", "emit_others")
    /\ LET d == task[sid].d
       IN  out' = EmitRoom(sio_rooms[d.room_id], {sid}, "user_joined",
                           [user_id |-> d.user_id, username |-> d.username,
                            avatar_color |-> UserDict(d).avatar_color,
                            position |-> UserDict(d).position])
    /\ Return(sid)
    /\ UNCHANGED <<stepframe, connected_users, room_data, sio_rooms, joined, dtask,
                   raised, left_recv>>

\* a join_room of connection sid arrives while join_room handlers of other
\* connections are in flight; racing keeps the joins that overlapped on a room
\* that did not exist when the later one began
BeginJoinDuringJoin(sid, d) ==
    LET running == {s \in Sids : task[s].pc # "idle"}
        same == {s \in running : task[s].d.room_id = d.room_id}
    IN  /\ conn[sid] = "open"
        /\ sid \notin running
        /\ running # {}
        /\ \A s \in running : task[s].op = "join_room"
        /\ \A s \in Sids : dtask[s].pc = "idle"
        /\ task' = [task EXCEPT ![sid] = Started("join_room", d)]
        /\ racing' = IF d.room_id \notin DOMAIN room_data /\ same # {}
                     THEN racing \cup {[sid |-> s, room |-> d.room_id] :
                                            s \in same \cup {sid}}
                     ELSE racing
        /\ UNCHANGED <<conn, connected_users, room_data, sio_rooms, out, last, joined,
                       now, dbvars, dtask, raised, left_recv>>

\* ---- handle_leave_room
\* if request.sid in connected_users:
leave_check(sid) ==
    /\ At(sid, "leave_room", "read")
    /\ IF sid \in DOMAIN connected_users THEN Goto(sid, "get") ELSE Return(sid)
    /\ UNCHANGED <<stepframe, connected_users, room_data, sio_rooms, out, joined,
                   dtask, raised, left_recv>>

\* user_data = connected_users[request.sid]: a KeyError once the sid is deleted
leave_get(sid) ==
    /\ At(sid, "leave_room", "get")
    /\ IF sid \in DOMAIN connected_users
       THEN /\ task' = [task EXCEPT ![sid].user_data = connected_users[sid],
                                    ![sid].pc = "room_id"]
            /\ UNCHANGED raised
       ELSE Raise(sid)
    /\ UNCHANGED <<stepframe, connected_users, room_data, sio_rooms, out, joined,
                   dtask, left_recv>>

\* room_id = user_data.get('room_id'); if room_id:
leave_room_id(sid) ==
    /\ At(sid, "leave_room", "room_id")
    /\ LET room_id == task[sid].user_data.room_id
       IN  task' = [task EXCEPT ![sid].room_id = room_id,
                                ![sid].pc = IF room_id # None THEN "sio" ELSE "clear"]
    /\ UNCHANGED <<stepframe, connected_users, room_data, sio_rooms, out, joined,
                   dtask, raised, left_recv>>

\* leave_room(room_id)
leave_sio(sid) ==
    /\ At(sid, "leave_room", "sio")
    /\ sio_rooms' = [sio_rooms EXCEPT ![task[sid].room_id] = @ \ {sid}]
    /\ Goto(sid, "pop")
    /\ UNCHANGED <<stepframe, connected_users, room_data, out, joined, dtask,
                   raised, left_recv>>

\* if room_id in room_data: room_data[room_id]['users'].pop(request.sid, None)
leave_pop(sid) ==
    /\ At(sid, "leave_room", "pop")
    /\ room_data' = RoomDataAfterLeave(sid, task[sid].room_id)
    /\ joined' = [joined EXCEPT ![task[sid].room_id] = @ \ {sid}]
    /\ Goto(sid, "emit")
    /\ UNCHANGED <<stepframe, connected_users, sio_rooms, out, dtask, raised,
                   left_recv>>

\* left_recv after a user_left about sid was delivered to `recipients`
Received(recipients, sid) ==
    [c \in Sids |-> IF c \in recipients
                    THEN [left_recv[c] EXCEPT ![sid] = @ + 1]
                    ELSE left_recv[c]]

\* emit('user_left', {...}, room=room_id)
leave_emit(sid) ==
    /\ At(sid, "leave_room", "emit")
    /\ out' = EmitRoom(sio_rooms[task[sid].room_id], {}, "user_left",
                       UserLeft(task[sid].user_data))
    /\ left_recv' = Received(sio_rooms[task[sid].room_id], sid)
    /\ Goto(sid, "clear")
    /\ UNCHANGED <<stepframe, connected_users, room_data, sio_rooms, joined, dtask,
                   raised>>

\* connected_users[request.sid]['room_id'] = None: a KeyError once the sid is
\* deleted; the write shows through the disconnect handler's user_data
leave_clear(sid) ==
    /\ At(sid, "leave_room", "clear")
    /\ IF sid \in DOMAIN connected_users
       THEN /\ connected_users' = UsersAfterLeave(sid)
            /\ dtask' = IF dtask[sid].pc \in {"room_id", "pop", "emit", "del"}
                        THEN [dtask EXCEPT ![sid].user_data.room_id = None]
                        ELSE dtask
            /\ Return(sid)
            /\ UNCHANGED raised
       ELSE /\ Raise(sid)
            /\ UNCHANGED <<connected_users, dtask>>
    /\ UNCHANGED <<stepframe, room_data, sio_rooms, out, joined, left_recv>>

\* ---- handle_disconnect
\* the transport of sid closes and the disconnect handler is started
BeginDisconnect(sid) ==
    /\ conn[sid] = "open"
    /\ Quiet
    /\ conn' = [conn EXCEPT ![sid] = "closed"]
    /\ dtask' = [dtask EXCEPT ![sid] = Started("disconnect", EmptyDict)]
    /\ last' = [op |-> "disconnect", sid |-> sid, room |-> RoomOf(sid)]
    /\ out' = {}
    /\ racing' = {}
    /\ UNCHANGED <<connected_users, room_data, sio_rooms, joined, now, dbvars,
                   task, raised, left_recv>>

\* the same while the leave_room handler of the same connection is in flight
BeginDisconnectDuringLeave(sid) ==
    /\ conn[sid] = "open"
    /\ task[sid].op = "leave_room"
    /\ \A s \in Sids : dtask[s].pc = "idle" /\ (s # sid => task[s].pc = "idle")
    /\ conn' = [conn EXCEPT ![sid] = "closed"]
    /\ dtask' = [dtask EXCEPT ![sid] = Started("disconnect", EmptyDict)]
    /\ racing' = IF last.room # None THEN {[sid |-> sid, room |-> last.room]} ELSE {}
    /\ UNCHANGED <<connected_users, room_data, sio_rooms, out, last, joined, now,
                   dbvars, task, raised, left_recv>>

DAt(sid, pc) == dtask[sid].pc = pc

DGoto(sid, pc) == dtask' = [dtask EXCEPT ![sid].pc = pc]

\* if request.sid in connected_users:
disconnect_check(sid) ==
    /\ DAt(sid, "read")
    /\ DGoto(sid, IF sid \in DOMAIN connected_users THEN "get" ELSE "finish")
    /\ UNCHANGED <<stepframe, connected_users, room_data, sio_rooms, out, joined,
                   task, raised, left_recv>>

\* user_data = connected_users[request.sid]
disconnect_get(sid) ==
    /\ DAt(sid, "get")
    /\ dtask' = [dtask EXCEPT ![sid].user_data = connected_users[sid],
                              ![sid].pc = "room_id"]
    /\ UNCHANGED <<stepframe, connected_users, room_data, sio_rooms, out, joined,
                   task, raised, left_recv>>

\* room_id = user_data.get('room_id'); if room_id and room_id in room_data:
disconnect_room_id(sid) ==
    /\ DAt(sid, "room_id")
    /\ LET room_id == dtask[sid].user_data.room_id
       IN  dtask' = [dtask EXCEPT ![sid].room_id = room_id,
                                  ![sid].pc = IF room_id # None
                                                 /\ room_id \in DOMAIN room_data
                                              THEN "pop" ELSE "del"]
    /\ UNCHANGED <<stepframe, connected_users, room_data, sio_rooms, out, joined,
                   task, raised, left_recv>>

\* room_data[room_id]['users'].pop(request.sid, None)
disconnect_pop(sid) ==
    /\ DAt(sid, "pop")
    /\ room_data' = RoomDataAfterLeave(sid, dtask[sid].room_id)
    /\ joined' = [joined EXCEPT ![dtask[sid].room_id] = @ \ {sid}]
    /\ DGoto(sid, "emit")
    /\ UNCHANGED <<stepframe, connected_users, sio_rooms, out, task, raised,
                   left_recv>>

\* emit('user_left', {...}, room=room_id): the closed transport gets nothing
disconnect_emit(sid) ==
    /\ DAt(sid, "emit")
    /\ out' = EmitRoom(sio_rooms[dtask[sid].room_id], {sid}, "user_left",
                       UserLeft(dtask[sid].user_data))
    /\ left_recv' = Received(sio_rooms[dtask[sid].room_id] \ {sid}, sid)
    /\ DGoto(sid, "del")
    /\ UNCHANGED <<stepframe, connected_users, room_data, sio_rooms, joined, task,
                   raised>>

\* del connected_users[request.sid]
disconnect_del(sid) ==
    /\ DAt(sid, "del")
    /\ connected_users' = Pop(connected_users, sid)
    /\ DGoto(sid, "finish")
    /\ UNCHANGED <<stepframe, room_data, sio_rooms, out, joined, task, raised,
                   left_recv>>

\* the handler returns and Socket.IO takes the sid out of every room
disconnect_finish(sid) ==
    /\ DAt(sid, "finish")
    /\ sio_rooms' = [r \in Rooms |-> sio_rooms[r] \ {sid}]
    /\ joined' = [r \in Rooms |-> joined[r] \ {sid}]
    /\ dtask' = [dtask EXCEPT ![sid] = Idle]
    /\ UNCHANGED <<stepframe, connected_users, room_data, out, task, raised,
                   left_recv>>

\* ---- handle_update_position
\* if request.sid in connected_users: user_data = ...; room_id = ...
position_read(sid) ==
    /\ At(sid, "update_position", "read")
    /\ IF sid \in DOMAIN connected_users
       THEN task' = [task EXCEPT ![sid].user_data = connected_users[sid],
                                 ![sid].room_id = connected_users[sid].room_id,
                                 ![sid].pc = "set"]
       ELSE Return(sid)
    /\ UNCHANGED <<stepframe, connected_users, room_data, sio_rooms, out, joined,
                   dtask, raised, left_recv>>

\* the sid's entry in the users of its room is the dict user_data refers to
SharesUserDict(sid, room_id) ==
    /\ room_id \in DOMAIN room_data
    /\ sid \in DOMAIN room_data[room_id].users

\* new_position = data.get('position', {}); user_data['position'] = new_position
position_set(sid) ==
    /\ At(sid, "update_position", "set")
    /\ LET new_position == Get(task[sid].d, "position", EmptyDict)
           room_id == task[sid].room_id
       IN  /\ connected_users' = UsersAfterPosition(sid, new_position)
           /\ room_data' = IF SharesUserDict(sid, room_id)
                           THEN [room_data EXCEPT
                                    ![room_id].users[sid].position = new_position]
                           ELSE room_data
    /\ Goto(sid, "room")
    /\ UNCHANGED <<stepframe, sio_rooms, out, joined, dtask, raised, left_recv>>

\* if room_id and room_id in room_data:
\*     room_data[room_id]['users'][request.sid]['position'] = new_position
position_room(sid) ==
    /\ At(sid, "update_position", "room")
    /\ LET new_position == Get(task[sid].d, "position", EmptyDict)
           room_id == task[sid].room_id
       IN  IF room_id # None /\ room_id \in DOMAIN room_data
           THEN IF sid \in DOMAIN room_data[room_id].users
                THEN /\ room_data' = [room_data EXCEPT
                                        ![room_id].users[sid].position = new_position]
                     /\ Goto(sid, "emit")
                     /\ UNCHANGED raised
                ELSE /\ Raise(sid)
                     /\ UNCHANGED room_data
           ELSE /\ Return(sid)
                /\ UNCHANGED <<room_data, raised>>
    /\ UNCHANGED <<stepframe, connected_users, sio_rooms, out, joined, dtask,
                   left_recv>>

\* emit('position_updated', {...}, room=room_id, include_self=False)
position_emit(sid) ==
    /\ At(sid, "update_position", "emit")
    /\ out' = EmitRoom(sio_rooms[task[sid].room_id], {sid}, "position_updated",
                       [user_id |-> task[sid].user_data.user_id,
                        position |-> Get(task[sid].d, "position", EmptyDict)])
    /\ Return(sid)
    /\ UNCHANGED <<stepframe, connected_users, room_data, sio_rooms, joined, dtask,
                   raised, left_recv>>

\* ---- handle_music_control
\* the statement the handler goes to for the action of payload d
MusicBranch(d) ==
    LET action == Get(d, "action", None)
    IN  IF action \in {"play_pause", "skip"} THEN "emit_control"
        ELSE IF action = "update_song" /\ Get(d, "song_data", None) # None
        THEN "set_song"
        ELSE "idle"

\* if request.sid in connected_users: ...; if room_id and room_id in room_data:
\*     action = data.get('action')
music_read(sid) ==
    /\ At(sid, "music_control", "read")
    /\ IF RoomOf(sid) # None /\ RoomOf(sid) \in DOMAIN room_data
          /\ MusicBranch(task[sid].d) # "idle"
       THEN task' = [task EXCEPT ![sid].user_data = connected_users[sid],
                                 ![sid].room_id = RoomOf(sid),
                                 ![sid].pc = MusicBranch(task[sid].d)]
       ELSE Return(sid)
    /\ UNCHANGED <<stepframe, connected_users, room_data, sio_rooms, out, joined,
                   dtask, raised, left_recv>>

\* emit('music_play_pause' or 'music_skip', {...}, room=room_id)
music_emit_control(sid) ==
    /\ At(sid, "music_control", "emit_control")
    /\ out' = MusicEmits(sid, task[sid].room_id, task[sid].d)
    /\ Return(sid)
    /\ UNCHANGED <<stepframe, connected_users, room_data, sio_rooms, joined, dtask,
                   raised, left_recv>>

\* room_data[room_id]['current_song'] = song_data
music_set_song(sid) ==
    /\ At(sid, "music_control", "set_song")
    /\ room_data' = [room_data EXCEPT
                        ![task[sid].room_id].current_song = task[sid].d.song_data]
    /\ Goto(sid, "set_position")
    /\ UNCHANGED <<stepframe, connected_users, sio_rooms, out, joined, dtask,
                   raised, left_recv>>

\* room_data[room_id]['playback_position'] = 0
music_set_position(sid) ==
    /\ At(sid, "music_control", "set_position")
    /\ room_data' = RoomDataAfterSong(task[sid].room_id, task[sid].d.song_data)
    /\ Goto(sid, "emit_song")
    /\ UNCHANGED <<stepframe, connected_users, sio_rooms, out, joined, dtask,
                   raised, left_recv>>

\* emit('song_updated', {...}, room=room_id)
music_emit_song(sid) ==
    /\ At(sid, "music_control", "emit_song")
    /\ out' = MusicEmits(sid, task[sid].room_id, task[sid].d)
    /\ Return(sid)
    /\ UNCHANGED <<stepframe, connected_users, room_data, sio_rooms, joined, dtask,
                   raised, left_recv>>

\* ---- handle_sync_playback
\* if request.sid in connected_users: ...; if room_id and room_id in room_data:
sync_read(sid) ==
    /\ At(sid, "sync_playback", "read")
    /\ IF RoomOf(sid) # None /\ RoomOf(sid) \in DOMAIN room_data
       THEN task' = [task EXCEPT ![sid].room_id = RoomOf(sid), ![sid].pc = "set"]
       ELSE Return(sid)
    /\ UNCHANGED <<stepframe, connected_users, room_data, sio_rooms, out, joined,
                   dtask, raised, left_recv>>

\* position = data.get('position', 0)
\* room_data[room_id]['playback_position'] = position
sync_set(sid) ==
    /\ At(sid, "sync_playback", "set")
    /\ room_data' = RoomDataAfterSync(task[sid].room_id,
                                      Get(task[sid].d, "position", 0))
    /\ Goto(sid, "emit")
    /\ UNCHANGED <<stepframe, connected_users, sio_rooms, out, joined, dtask,
                   raised, left_recv>>

\* emit('playback_synced', {...}, room=room_id, include_self=False)
sync_emit(sid) ==
    /\ At(sid, "sync_playback", "emit")
    /\ out' = EmitRoom(sio_rooms[task[sid].room_id], {sid}, "playback_synced",
                       [position |-> Get(task[sid].d, "position", 0),
                        timestamp |-> now])
    /\ Return(sid)
    /\ UNCHANGED <<stepframe, connected_users, room_data, sio_rooms, joined, dtask,
                   raised, left_recv>>

\* ---- the statement-level specifications
JoinSteps(sid) ==
    \/ join_read(sid) \/ join_store(sid) \/ join_check_room(sid) \/ join_init(sid)
    \/ join_sio(sid) \/ join_add(sid) \/ join_emit_self(sid) \/ join_emit_others(sid)

LeaveSteps(sid) ==
    \/ leave_check(sid) \/ leave_get(sid) \/ leave_room_id(sid) \/ leave_sio(sid)
    \/ leave_pop(sid) \/ leave_emit(sid) \/ leave_clear(sid)

DisconnectSteps(sid) ==
    \/ disconnect_check(sid) \/ disconnect_get(sid) \/ disconnect_room_id(sid)
    \/ disconnect_pop(sid) \/ disconnect_emit(sid) \/ disconnect_del(sid)
    \/ disconnect_finish(sid)

PositionSteps(sid) ==
    \/ position_read(sid) \/ position_set(sid) \/ position_room(sid)
    \/ position_emit(sid)

MusicSteps(sid) ==
    \/ music_read(sid) \/ music_emit_control(sid) \/ music_set_song(sid)
    \/ music_set_position(sid) \/ music_emit_song(sid)

SyncSteps(sid) == sync_read(sid) \/ sync_set(sid) \/ sync_emit(sid)

\* one handler at a time, each run statement by statement
NextSteps ==
    \/ \E sid \in Sids : handle_connect(sid)
    \/ \E sid \in Sids : \E d \in StepJoinData(sid) : BeginEvent(sid, "join_room", d)
    \/ \E sid \in Sids : BeginEvent(sid, "leave_room", EmptyDict)
    \/ \E sid \in Sids : \E d \in PositionData : BeginEvent(sid, "update_position", d)
    \/ \E sid \in Sids : \E d \in MusicData : BeginEvent(sid, "music_control", d)
    \/ \E sid \in Sids : \E d \in SyncData : BeginEvent(sid, "sync_playback", d)
    \/ \E sid \in Sids : BeginDisconnect(sid)
    \/ \E sid \in Sids : JoinSteps(sid)
    \/ \E sid \in Sids : LeaveSteps(sid)
    \/ \E sid \in Sids : DisconnectSteps(sid)
    \/ \E sid \in Sids : PositionSteps(sid)
    \/ \E sid \in Sids : MusicSteps(sid)
    \/ \E sid \in Sids : SyncSteps(sid)

SpecSteps == Init /\ [][NextSteps]_vars

\* the same for join, leave and disconnect, where the disconnect of a
\* connection may arrive while its leave_room handler is in flight
NextRace ==
    \/ \E sid \in Sids : handle_connect(sid)
    \/ \E sid \in Sids : \E d \in StepJoinData(sid) : BeginEvent(sid, "join_room", d)
    \/ \E sid \in Sids : BeginEvent(sid, "leave_room", EmptyDict)
    \/ \E sid \in Sids : BeginDisconnect(sid)
    \/ \E sid \in Sids : BeginDisconnectDuringLeave(sid)
    \/ \E sid \in Sids : JoinSteps(sid)
    \/ \E sid \in Sids : LeaveSteps(sid)
    \/ \E sid \in Sids : DisconnectSteps(sid)

SpecRace == Init /\ [][NextRace]_vars

\* join_room handlers of different connections may overlap
NextJoinRace ==
    \/ \E sid \in Sids : handle_connect(sid)
    \/ \E sid \in Sids : \E d \in StepJoinData(sid) : BeginEvent(sid, "join_room", d)
    \/ \E sid \in Sids : \E d \in StepJoinData(sid) : BeginJoinDuringJoin(sid, d)
    \/ \E sid \in Sids : BeginEvent(sid, "leave_room", EmptyDict)
    \/ \E sid \in Sids : JoinSteps(sid)
    \/ \E sid \in Sids : LeaveSteps(sid)

SpecJoinRace == Init /\ [][NextJoinRace]_vars

\* ------------------------------------------------------------------ claims
\* the sids in the users map of room r
Members(r) == IF r \in DOMAIN room_data THEN DOMAIN room_data[r].users ELSE {}

\* the sids connected_users binds to room r
Bound(r) == {sid \in DOMAIN connected_users : connected_users[sid].room_id = r}

\* the deliveries of `event` in the last handler's output
Delivered(event) == {m \in out : m.event = event}

\* C1: a connection id is in the users map of at most one room.
C1_AtMostOneRoom ==
    \A sid \in Sids : Cardinality({r \in Rooms : sid \in Members(r)}) <= 1

\* C2: every key of a room's users map is an open connection that
\* connected_users binds to that room.
C2_MembersAreLive ==
    \A r \in Rooms : \A sid \in Members(r) :
        /\ conn[sid] = "open"
        /\ sid \in DOMAIN connected_users
        /\ connected_users[sid].room_id = r

\* C3: a room's member set is the set of connections that joined it minus
\* those that left or disconnected since.
C3_MembersAreJoinedMinusLeft ==
    \A r \in Rooms : Members(r) = joined[r]

\* sid joined a room once and has left every room it joined
HasLeft(sid) ==
    /\ sid \in DOMAIN connected_users
    /\ \A r \in Rooms : sid \notin joined[r]

\* C4: a leave_room or disconnect of a connection that has already left emits
\* no user_left and changes no room's member map; the leave_room of a bound
\* connection emits user_left to the others bound to its room, once.
C4_UnbindIdempotent ==
    [][\A sid \in Sids :
        /\ (HasLeft(sid) /\ (handle_leave_room(sid) \/ handle_disconnect(sid)))
              => /\ Delivered("user_left")' = {}
                 /\ room_data' = room_data
        /\ (RoomOf(sid) # None /\ handle_leave_room(sid))
              => /\ RoomOf(sid)' = None
                 /\ \A c \in Bound(RoomOf(sid)) \ {sid} :
                        [event |-> "user_left", to |-> c,
                         payload |-> UserLeft(connected_users[sid])] \in out'
      ]_vars

\* a second leave_room in a row has been handled
C4_Witness ==
    /\ last.op = "leave_room"
    /\ last.room = None
    /\ last.sid \in DOMAIN connected_users

RoomBroadcasts ==
    {"user_joined", "user_left", "position_updated", "sound_wave_received",
     "music_play_pause", "music_skip", "song_updated", "playback_synced"}

\* the room the last handler broadcast to
BroadcastRoom ==
    IF last.op \in {"leave_room", "disconnect"} THEN last.room ELSE RoomOf(last.sid)

\* C5: a room broadcast reaches only connections bound to the room it is for.
C5_BroadcastOnlyToBound ==
    \A m \in out : m.event \in RoomBroadcasts => RoomOf(m.to) = BroadcastRoom

\* C6: update_position from a connection bound to a room overwrites its stored
\* position and delivers position_updated, with its user id and the new
\* position, to every other connection bound to the room and never to itself.
C6_PositionToOthers ==
    [][\A sid \in Sids : \A d \in PositionData :
        (RoomOf(sid) # None /\ handle_update_position(sid, d))
        => /\ connected_users'[sid].position = d.position
           /\ room_data'[RoomOf(sid)].users[sid].position = d.position
           /\ \A c \in Bound(RoomOf(sid)) \ {sid} :
                [event |-> "position_updated", to |-> c,
                 payload |-> [user_id |-> connected_users[sid].user_id,
                              position |-> d.position]] \in out'
           /\ \A m \in out' : m.to # sid
      ]_vars

\* a bound connection moved and another connection bound to its room was told
C6_Witness ==
    /\ last.op = "update_position"
    /\ last.room # None
    /\ \E m \in Delivered("position_updated") :
        /\ m.to # last.sid
        /\ RoomOf(m.to) = last.room
        /\ m.payload.position = connected_users[last.sid].position
        /\ m.payload.position # Origin

\* C7: after a join_room into room R the joiner holds room_joined whose users
\* are exactly the presences of the connections bound to R, itself included;
\* every other connection bound to R holds user_joined, the joiner does not.
C7_JoinSnapshot ==
    \A m \in Delivered("room_joined") :
        LET R == m.payload.room_id
        IN  /\ m.to = last.sid
            /\ DOMAIN m.payload.users = Bound(R)
            /\ \A c \in Bound(R) : m.payload.users[c] = connected_users[c]
            /\ last.sid \in Bound(R)
            /\ \A c \in Bound(R) \ {last.sid} :
                   \E j \in Delivered("user_joined") :
                       j.to = c /\ j.payload.user_id = connected_users[last.sid].user_id
            /\ \A j \in Delivered("user_joined") : j.to # last.sid

\* C8: after the disconnect of a connection bound to room R, every connection
\* still bound to R holds user_left with the departed user's id and R's users
\* map holds exactly the connections still bound to R; the disconnect of a
\* connection bound to no room emits no user_left.
C8_DisconnectNotifies ==
    last.op = "disconnect" =>
        IF last.room # None
        THEN /\ \A c \in Bound(last.room) :
                    \E m \in Delivered("user_left") :
                        m.to = c /\ m.payload.user_id = UserOf(last.sid)
             /\ Members(last.room) = Bound(last.room)
        ELSE Delivered("user_left") = {}

\* C9: send_sound_wave from a connection bound to a room reaches every
\* connection bound to the room, the sender included, with from = the sender's
\* user id, to = the target asked for and the intensity asked for.
C9_WaveToWholeRoom ==
    [][\A sid \in Sids : \A d \in WaveData :
        (RoomOf(sid) # None /\ handle_send_sound_wave(sid, d))
        => \A c \in Bound(RoomOf(sid)) :
             \E m \in out' :
                /\ m.event = "sound_wave_received"
                /\ m.to = c
                /\ m.payload.from_user_id = connected_users[sid].user_id
                /\ m.payload.to_user_id = Get(d, "to_user_id", None)
                /\ m.payload.intensity = Get(d, "intensity", DefaultIntensity)
      ]_vars

\* a wave with a named target and an intensity reached its sender and a
\* connection that is not the target
C9_Witness ==
    /\ last.op = "send_sound_wave"
    /\ \E m \in Delivered("sound_wave_received") :
        /\ m.to = last.sid
        /\ m.payload.intensity \in Intensities
    /\ \E m \in Delivered("sound_wave_received") :
        /\ m.to # last.sid
        /\ RoomOf(m.to) = last.room
        /\ m.payload.to_user_id # connected_users[m.to].user_id

\* C10: every sound_wave_received carries an expiry SoundWaveTTL seconds after
\* its creation time.
C10_WaveExpiry ==
    \A m \in Delivered("sound_wave_received") :
        /\ "expiry" \in DOMAIN m.payload
        /\ m.payload.expiry - m.payload.timestamp = SoundWaveTTL

\* C11: a room-state read at time t returns no sound wave whose expiry,
\* SoundWaveTTL seconds after its creation, is at or before t.
C11_ReadHidesExpired ==
    response.kind = "room_state" =>
        \A w \in response.sound_waves : w.created_at + SoundWaveTTL > response.at

\* C12: after a cleanup_expired run at time now no kept wave has
\* expires_at <= now (the waves created since, in the same second, expire later).
C12_SweepPurgesExpired ==
    swept_at = now => \A w \in sound_waves : w.expires_at > now

\* the last handler's output is an error reply to its caller and nothing else
ErrorReplyOnly(sid) ==
    /\ \E m \in out : m.event = "error"
    /\ \A m \in out : m.event = "error" /\ m.to = sid

\* the events that need a bound connection
NeedsRoom ==
    {"update_position", "send_sound_wave", "music_control", "sync_playback",
     "leave_room"}

\* C13: an event that needs a room, from a connection bound to none, is
\* answered with an error to that connection only and changes no room state.
C13_UnboundGetsError ==
    [][(last'.op \in NeedsRoom /\ last'.room = None)
        => /\ ErrorReplyOnly(last.sid)'
           /\ room_data' = room_data]_vars

\* C14: a join_room for another room than the one the connection is bound to
\* is answered with an error to that connection only; the binding, every
\* room's member map and the set of rooms stay as they were.
C14_AlreadyBound ==
    [][\A sid \in Sids : \A d \in JoinPlain(sid) \cup JoinFull(sid) :
        (RoomOf(sid) # None /\ d.room_id # RoomOf(sid) /\ handle_join_room(sid, d))
        => /\ ErrorReplyOnly(sid)'
           /\ connected_users' = connected_users
           /\ room_data' = room_data]_vars

KnownActions == {"play_pause", "skip", "update_song"}

\* C15: a music_control with an action the handler does not know, from a
\* bound connection, is answered with an error to the sender only, and
\* changes no room state.
C15_UnknownAction ==
    [][\A sid \in Sids : \A d \in MusicData :
        (/\ RoomOf(sid) # None
         /\ Get(d, "action", None) \notin KnownActions
         /\ handle_music_control(sid, d))
        => /\ ErrorReplyOnly(sid)'
           /\ room_data' = room_data]_vars

\* the user ids present in room r
PresentUserIds(r) == {room_data[r].users[s].user_id : s \in Members(r)}

\* C16: a wave to a user who is not in the sender's room is answered with an
\* error to the sender; no sound_wave_received is emitted.
C16_TargetNotFound ==
    [][\A sid \in Sids : \A d \in WaveData :
        (/\ RoomOf(sid) # None
         /\ Get(d, "to_user_id", None) \notin PresentUserIds(RoomOf(sid))
         /\ handle_send_sound_wave(sid, d))
        => /\ ErrorReplyOnly(sid)'
           /\ Delivered("sound_wave_received")' = {}]_vars

\* the step is the join_room handler of sid on a payload without room_id,
\* user_id or username
MalformedJoinBy(sid) ==
    /\ last'.op = "join_room"
    /\ last'.sid = sid
    /\ \E d \in JoinMalformed(sid) :
        /\ \E k \in {"room_id", "user_id", "username"} : k \notin DOMAIN d
        /\ handle_join_room(sid, d)

\* C17: a join_room without room_id, user_id or username is answered with an
\* error to the caller only; connected_users, room_data and the Socket.IO
\* rooms stay as they were.
C17_MalformedJoin ==
    [][\A sid \in Sids :
        MalformedJoinBy(sid)
        => /\ ErrorReplyOnly(sid)'
           /\ connected_users' = connected_users
           /\ room_data' = room_data
           /\ sio_rooms' = sio_rooms]_vars

\* a join_room was refused with an error while another connection is in a room
C17_Witness ==
    /\ last.op = "join_room"
    /\ ErrorReplyOnly(last.sid)
    /\ last.sid \notin DOMAIN connected_users
    /\ \E r \in Rooms : Members(r) # {}

\* C20: a sync_playback never lowers a room's playback_position, and the
\* position is never negative.
C20_PositionMonotonic ==
    [][last'.op = "sync_playback"
        => \A r \in DOMAIN room_data :
            /\ room_data'[r].playback_position >= room_data[r].playback_position
            /\ room_data'[r].playback_position >= 0]_vars

\* C18: when a handler reaches the emit of user_joined, user_left,
\* position_updated, song_updated or playback_synced, room_data already holds
\* the change the event announces.
C18_MutateThenBroadcast ==
    [][\A sid \in Sids :
        /\ join_emit_others(sid)
            => /\ sid \in Members(task[sid].d.room_id)
               /\ room_data[task[sid].d.room_id].users[sid] = UserDict(task[sid].d)
        /\ leave_emit(sid) => sid \notin Members(task[sid].room_id)
        /\ disconnect_emit(sid) => sid \notin Members(dtask[sid].room_id)
        /\ position_emit(sid)
            => room_data[task[sid].room_id].users[sid].position
                   = Get(task[sid].d, "position", EmptyDict)
        /\ music_emit_song(sid)
            => /\ room_data[task[sid].room_id].current_song = task[sid].d.song_data
               /\ room_data[task[sid].room_id].playback_position = 0
        /\ sync_emit(sid)
            => room_data[task[sid].room_id].playback_position
                   = Get(task[sid].d, "position", 0)]_vars

\* a leave_room handler has just emitted user_left to another member
C18_Witness ==
    \E sid \in Sids :
        /\ At(sid, "leave_room", "clear")
        /\ \E m \in Delivered("user_left") : m.to # sid /\ m.to \in Members(task[sid].room_id)

\* both handlers of connection sid have returned
Returned(sid) == task[sid].pc = "idle" /\ dtask[sid].pc = "idle"

\* C19: once an overlapping leave_room and disconnect of a bound connection
\* have both returned, every remaining member of its room got exactly one
\* user_left about it, neither handler raised, and the connection is in no
\* room's users.
C19_UnboundOnce ==
    \A x \in racing :
        Returned(x.sid)
        => /\ \A c \in Members(x.room) \ {x.sid} : left_recv[c][x.sid] = 1
           /\ \A h \in raised : h.sid # x.sid
           /\ \A r \in Rooms : x.sid \notin Members(r)

\* the event `event` with a payload satisfying field k = v reaches connection c
\* in the output of the step
Reaches(msgs, c, event, k, v) ==
    \E m \in msgs : m.event = event /\ m.to = c /\ m.payload[k] = v

\* the music_control payloads the claims speak of: play_pause, skip, and
\* update_song with a song
ControlData ==
    {d \in MusicData :
        \/ Get(d, "action", None) \in {"play_pause", "skip"}
        \/ Get(d, "action", None) = "update_song" /\ Get(d, "song_data", None) # None}

\* C21: update_song with song_data from a connection bound to R stores the
\* song, resets playback_position to 0 and reaches every connection bound to
\* R, the sender included; play_pause and skip reach every connection bound
\* to R, the sender included, and change no room state.
C21_MusicControl ==
    [][\A sid \in Sids :
        (last'.op = "music_control" /\ last'.sid = sid /\ RoomOf(sid) # None)
        => \A d \in ControlData :
            handle_music_control(sid, d)
            => LET R == RoomOf(sid)
                   action == Get(d, "action", None)
                   song_data == Get(d, "song_data", None)
               IN  /\ (action = "update_song" /\ song_data # None)
                        => /\ room_data'[R].current_song = song_data
                           /\ room_data'[R].playback_position = 0
                           /\ \A c \in Bound(R) :
                                Reaches(out', c, "song_updated", "song_data", song_data)
                   /\ action = "play_pause"
                        => /\ room_data' = room_data
                           /\ \A c \in Bound(R) :
                                Reaches(out', c, "music_play_pause", "user_id",
                                        connected_users[sid].user_id)
                   /\ action = "skip"
                        => /\ room_data' = room_data
                           /\ \A c \in Bound(R) :
                                Reaches(out', c, "music_skip", "user_id",
                                        connected_users[sid].user_id)]_vars

\* an update_song has reached its sender and another member of the room, and
\* the room holds the song at position 0
C21_Witness ==
    /\ last.op = "music_control"
    /\ last.room # None
    /\ \E m \in Delivered("song_updated") :
        /\ m.to = last.sid
        /\ room_data[last.room].current_song = m.payload.song_data
    /\ \E m \in Delivered("song_updated") : m.to # last.sid /\ RoomOf(m.to) = last.room
    /\ room_data[last.room].playback_position = 0

\* C22: a sync_playback from a connection bound to R stores its position in
\* R and reaches every other connection bound to R with that position, never
\* the sender; the room_joined of a join reports the position the room holds.
C22_SyncPlayback ==
    [][\A sid \in Sids :
        /\ (last'.op = "sync_playback" /\ last'.sid = sid /\ RoomOf(sid) # None)
            => \A d \in SyncData :
                handle_sync_playback(sid, d)
                => LET R == RoomOf(sid)
                       position == Get(d, "position", 0)
                   IN  /\ room_data'[R].playback_position = position
                       /\ \A c \in Bound(R) \ {sid} :
                            Reaches(out', c, "playback_synced", "position", position)
                       /\ \A m \in out' : m.event = "playback_synced" => m.to # sid
        /\ (last'.op = "join_room" /\ last'.sid = sid)
            => \A m \in out' :
                m.event = "room_joined"
                => /\ m.payload.playback_position
                        = room_data'[m.payload.room_id].playback_position
                   /\ m.payload.room_id \in DOMAIN room_data
                        => m.payload.playback_position
                                = room_data[m.payload.room_id].playback_position]_vars

\* a connection has joined a room after a sync_playback and its room_joined
\* reports the synced position
C22_Witness ==
    /\ last.op = "join_room"
    /\ \E m \in Delivered("room_joined") :
        /\ m.to = last.sid
        /\ m.payload.playback_position \in PlaybackPositions
        /\ DOMAIN m.payload.users # {last.sid}

\* C23: a join_room for the room the connection is already bound to gives no
\* error, keeps the set of connection ids in the room's users, and replaces
\* only that connection's entry, by the attributes now supplied.
C23_RejoinRefreshes ==
    [][\A sid \in Sids :
        (last'.op = "join_room" /\ last'.sid = sid /\ RoomOf(sid) # None)
        => \A d \in {x \in JoinPlain(sid) \cup JoinFull(sid) : x.room_id = RoomOf(sid)} :
            handle_join_room(sid, d)
            => LET R == RoomOf(sid)
               IN  /\ \A m \in out' : m.event # "error"
                   /\ DOMAIN room_data' = DOMAIN room_data
                   /\ DOMAIN room_data'[R].users = DOMAIN room_data[R].users
                   /\ room_data'[R].users[sid] = UserDict(d)
                   /\ connected_users'[sid] = UserDict(d)
                   /\ \A r \in DOMAIN room_data :
                        /\ room_data'[r].current_song = room_data[r].current_song
                        /\ room_data'[r].playback_position = room_data[r].playback_position
                        /\ \A c \in DOMAIN room_data[r].users :
                            (r # R \/ c # sid)
                            => /\ c \in DOMAIN room_data'[r].users
                               /\ room_data'[r].users[c] = room_data[r].users[c]]_vars

\* a connection has joined the room it was bound to, beside another member,
\* and its entry holds the avatar colour it supplied this time
C23_Witness ==
    /\ last.op = "join_room"
    /\ last.room # None
    /\ RoomOf(last.sid) = last.room
    /\ \E c \in Members(last.room) : c # last.sid
    /\ room_data[last.room].users[last.sid].avatar_color \in Colors
    /\ \E m \in Delivered("room_joined") : m.to = last.sid

\* the presence attributes of a user dict
Presence(u) ==
    [user_id |-> u.user_id, username |-> u.username,
     avatar_color |-> u.avatar_color, position |-> u.position]

\* C24: an event of connection A (the sid of last') leaves the entry of every
\* other connection, in connected_users and in the users of every room, as it
\* was: not changed, not removed, not created.
C24_OwnPresenceOnly ==
    [][\A c \in Sids \ {last'.sid} :
        /\ (c \in DOMAIN connected_users') = (c \in DOMAIN connected_users)
        /\ c \in DOMAIN connected_users
            => Presence(connected_users'[c]) = Presence(connected_users[c])
        /\ DOMAIN room_data \subseteq DOMAIN room_data'
        /\ \A r \in DOMAIN room_data :
            /\ (c \in DOMAIN room_data'[r].users) = (c \in DOMAIN room_data[r].users)
            /\ c \in DOMAIN room_data[r].users
                => Presence(room_data'[r].users[c]) = Presence(room_data[r].users[c])
        /\ \A r \in DOMAIN room_data' \ DOMAIN room_data :
            c \notin DOMAIN room_data'[r].users]_vars

\* a connection has moved in a room where another member stands elsewhere
C24_Witness ==
    /\ last.op = "update_position"
    /\ last.room # None
    /\ \E c \in Members(last.room) \ {last.sid} :
        /\ last.sid \in Members(last.room)
        /\ room_data[last.room].users[c].position
             # room_data[last.room].users[last.sid].position

\* C25: once join_room handlers that overlapped on a room that did not exist
\* have all returned, every one of their connections is in the users of the
\* room (the room was initialised once, and no later initialisation wiped a
\* member).
C25_ConcurrentJoins ==
    Quiet => \A x \in racing : x.sid \in Members(x.room)

\* C26: no room_data entry is ever removed, and a room_joined for an existing
\* room that every connection that joined it has left (or disconnected from)
\* reports the room's stored current_song and playback_position and a users
\* list holding the joiner only.
C26_RetainedAcrossEmptiness ==
    [][/\ DOMAIN room_data \subseteq DOMAIN room_data'
       /\ last'.op = "join_room"
            => \A m \in out' :
                (/\ m.event = "room_joined"
                 /\ m.payload.room_id \in DOMAIN room_data
                 /\ joined[m.payload.room_id] = {})
                => LET R == m.payload.room_id
                   IN  /\ m.payload.current_song = room_data[R].current_song
                       /\ m.payload.playback_position = room_data[R].playback_position
                       /\ DOMAIN m.payload.users = {m.to}]_vars

\* C27: the number of active members of the room never exceeds max_users.
C27_Capacity == active_member_count <= max_users

\* C28: next_song returns the first entry's song (None for an empty playlist)
\* when there is no current song; otherwise the song of the entry with the
\* smallest order above the current song's order; when the current song is last,
\* the first entry's song under repeat_mode "all" and None otherwise; None when
\* the current song is not in the playlist. The call leaves the playlist as it was.
C28_NextSong ==
    [][next_result' # next_result =>
        LET rows == playlist_songs
            first == IF rows = {} THEN None
                     ELSE (CHOOSE e \in rows : \A f \in rows : e.order <= f.order).song
            of_current == {e.order : e \in {r \in rows : r.song = current_song}}
            current_order == CHOOSE o \in of_current : \A q \in of_current : o <= q
            above == {e \in rows : e.order > current_order}
            expected ==
                IF current_song = None THEN first
                ELSE IF of_current = {} THEN None
                ELSE IF above # {}
                     THEN (CHOOSE e \in above : \A f \in above : e.order <= f.order).song
                ELSE IF repeat_mode = "all" THEN first
                ELSE None
        IN  /\ next_result'.song = expected
            /\ UNCHANGED <<playlist_songs, current_song, repeat_mode>>]_vars

\* next_song was called on a playlist of three different songs while the one at
\* order 0 was current, and returned the one at order 1
C28_Witness ==
    /\ next_result.called
    /\ Cardinality(next_result.songs) = MaxOrder + 1
    /\ Cardinality({e.song : e \in next_result.songs}) = MaxOrder + 1
    /\ [song |-> next_result.current_song, order |-> 0] \in next_result.songs
    /\ [song |-> next_result.song, order |-> 1] \in next_result.songs

\* C29: after update_position(x, y, z) the stored position has position_x and
\* position_z in -5..5 and position_y in -2..2; a coordinate inside its range is
\* stored as sent, one above it as the upper bound, one below it as the lower
\* bound; update_position of the stored position stores the same position.
C29_PositionClamped ==
    last_move.called =>
        LET p == member_position[last_move.user]
            Kept(limit, sent, stored) ==
                /\ -limit <= stored /\ stored <= limit
                /\ (sent # NaN /\ -limit <= sent /\ sent <= limit) => stored = sent
                /\ (sent # NaN /\ sent > limit) => stored = limit
                /\ (sent # NaN /\ sent < -limit) => stored = -limit
        IN  /\ Kept(PositionLimitXZ, last_move.x, p.x)
            /\ Kept(PositionLimitY, last_move.y, p.y)
            /\ Kept(PositionLimitXZ, last_move.z, p.z)
            /\ update_position(p.x, p.y, p.z) = p

\* a member sent x above its range, y below its range and z inside its range
C29_Witness ==
    /\ last_move.called
    /\ last_move.x = MaxCoord /\ last_move.y = -MaxCoord /\ last_move.z = PositionLimitY
    /\ member_position[last_move.user] =
           [x |-> PositionLimitXZ, y |-> -PositionLimitY, z |-> PositionLimitY]

====
